---- MODULE Spec2Model ----
(***************************************************************************)
(* Model of app_analise_precursores.py: the Streamlit script that loads    *)
(* the bilingual precursor dictionary, extracts the text of an uploaded    *)
(* report, detects its language, fuzzy-matches every dictionary term       *)
(* against the sentences of the report and reports a frequency summary     *)
(* and a Sim/Nao status sheet.                                             *)
(*                                                                         *)
(* Strings are sequences of code points.  A code point is a one-token      *)
(* string: "a", "b" (lower case), "A" (upper case), "a_acute" and          *)
(* "A_acute" (precomposed accented letters), "acute" (the combining mark   *)
(* U+0301), " " (white space), "." "!" "?" (sentence terminators) and ";"  *)
(* (the term delimiter of the spreadsheet cells).                          *)
(***************************************************************************)
EXTENDS Integers, Sequences, FiniteSets, TLC

\* ---------------------------------------------------------------- bounds
MaxRows == 1      \* rows of the spreadsheet
MaxDocLen == 2    \* code points of the uploaded report

\* ------------------------------------------------------- string helpers
\* str.lower() on one code point
Lower(c) ==
    CASE c = "A" -> "a"
      [] c = "B" -> "b"
      [] c = "A_acute" -> "a_acute"
      [] OTHER -> c

\* unicodedata.normalize("NFKD", .) on one code point
NFKD(c) ==
    CASE c = "a_acute" -> <<"a", "acute">>
      [] c = "A_acute" -> <<"A", "acute">>
      [] OTHER -> <<c>>

\* unicodedata.combining(c) is non-zero
combining(c) == c = "acute"

\* str.isspace() on one code point (what str.strip() removes)
IsSpace(c) == c = " "

RECURSIVE Flatten(_)
\* "".join / concatenation of a sequence of sequences
Flatten(ss) ==
    IF ss = <<>> THEN <<>> ELSE Head(ss) \o Flatten(Tail(ss))

LowerStr(s) == [i \in 1..Len(s) |-> Lower(s[i])]

\* str.strip(): drop leading and trailing white space
strip(s) ==
    LET keep == {i \in 1..Len(s) : ~IsSpace(s[i])}
    IN  IF keep = {} THEN <<>>
        ELSE LET lo == CHOOSE i \in keep : \A j \in keep : i <= j
                 hi == CHOOSE i \in keep : \A j \in keep : j <= i
             IN  SubSeq(s, lo, hi)

RECURSIVE split(_, _)
\* str.split(";") and re.split(r'[.!?]', .): cut at every separator, keeping
\* empty pieces (so "" gives [""] and "a;" gives ["a", ""])
split(s, seps) ==
    LET cuts == {i \in 1..Len(s) : s[i] \in seps}
    IN  IF cuts = {} THEN <<s>>
        ELSE LET i == CHOOSE c \in cuts : \A d \in cuts : c <= d
             IN  <<SubSeq(s, 1, i - 1)>> \o split(SubSeq(s, i + 1, Len(s)), seps)

\* a missing spreadsheet cell (NaN) and str() of a cell
NaN == <<"NaN">>
isna(v) == v = NaN
str(v) == IF isna(v) THEN <<"n", "a", "n">> ELSE v

\* normalize(text): NFKD, drop combining marks, lower-case
normalize(text) ==
    LET decomposed == Flatten([i \in 1..Len(str(text)) |-> NFKD(str(text)[i])])
        kept == SelectSeq(decomposed, LAMBDA c : ~combining(c))
    IN  LowerStr(kept)

\* ------------------------------------------- difflib / fuzzywuzzy scoring
\* Indices are Python's: 0-based, half-open [lo, hi).
\* Length of the common run of a[i:ahi] and b[j:bhi]
RunLen(a, b, i, j, ahi, bhi) ==
    LET ks == {k \in 0..(IF ahi - i < bhi - j THEN ahi - i ELSE bhi - j) :
                 \A d \in 0..(k - 1) : a[i + d + 1] = b[j + d + 1]}
    IN  CHOOSE k \in ks : \A m \in ks : m <= k

\* SequenceMatcher.find_longest_match(alo, ahi, blo, bhi): the longest
\* matching block; of those the one starting earliest in a; of those the
\* one starting earliest in b; (alo, blo, 0) when nothing matches.
find_longest_match(a, b, alo, ahi, blo, bhi) ==
    LET cand == {<<i, j>> \in (alo..(ahi - 1)) \X (blo..(bhi - 1)) :
                    a[i + 1] = b[j + 1]}
    IN  IF cand = {} THEN <<alo, blo, 0>>
        ELSE LET len(p) == RunLen(a, b, p[1], p[2], ahi, bhi)
                 better(p, q) ==
                     \/ len(p) > len(q)
                     \/ len(p) = len(q) /\ p[1] < q[1]
                     \/ len(p) = len(q) /\ p[1] = q[1] /\ p[2] <= q[2]
                 best == CHOOSE p \in cand : \A q \in cand : better(p, q)
             IN  <<best[1], best[2], len(best)>>

RECURSIVE matching_in(_, _, _, _, _, _)
\* the recursion of get_matching_blocks on a[alo:ahi], b[blo:bhi], in order
matching_in(a, b, alo, ahi, blo, bhi) ==
    LET x == find_longest_match(a, b, alo, ahi, blo, bhi)
        i == x[1]
        j == x[2]
        k == x[3]
    IN  IF k = 0 THEN <<>>
        ELSE (IF alo < i /\ blo < j
                THEN matching_in(a, b, alo, i, blo, j) ELSE <<>>)
             \o <<x>>
             \o (IF i + k < ahi /\ j + k < bhi
                   THEN matching_in(a, b, i + k, ahi, j + k, bhi) ELSE <<>>)

RECURSIVE collapse(_)
\* get_matching_blocks merges adjacent blocks
collapse(bs) ==
    IF Len(bs) < 2 THEN bs
    ELSE LET p == bs[1]
             q == bs[2]
         IN  IF p[1] + p[3] = q[1] /\ p[2] + p[3] = q[2]
               THEN collapse(<<<<p[1], p[2], p[3] + q[3]>>>> \o SubSeq(bs, 3, Len(bs)))
               ELSE <<p>> \o collapse(Tail(bs))

\* SequenceMatcher(None, a, b).get_matching_blocks(), with its sentinel
get_matching_blocks(a, b) ==
    collapse(matching_in(a, b, 0, Len(a), 0, Len(b))) \o <<<<Len(a), Len(b), 0>>>>

RECURSIVE SumSizes(_)
SumSizes(bs) == IF bs = <<>> THEN 0 ELSE Head(bs)[3] + SumSizes(Tail(bs))

\* SequenceMatcher.ratio() = 2.0 * matches / (len(a) + len(b)), 1.0 when both
\* are empty; kept as the fraction <<numerator, denominator>>
ratio(a, b) ==
    IF Len(a) + Len(b) = 0 THEN <<1, 1>>
    ELSE <<2 * SumSizes(get_matching_blocks(a, b)), Len(a) + Len(b)>>

\* utils.intr(100 * r) = int(round(100 * r)), rounding half to even
intr100(r) ==
    LET n == 100 * r[1]
        q == n \div r[2]
        m == n % r[2]
    IN  IF 2 * m > r[2] THEN q + 1
        ELSE IF 2 * m < r[2] THEN q
        ELSE IF q % 2 = 0 THEN q ELSE q + 1

\* r > .995
AlmostOne(r) == 1000 * r[1] > 995 * r[2]

\* fuzz.partial_ratio(s1, s2), with its decorators: equal arguments score
\* 100 (check_for_equivalence, applied first), an empty argument scores 0
\* (check_empty_string); otherwise the best ratio of the shorter string
\* against the windows of the longer one that its matching blocks select.
partial_ratio(s1, s2) ==
    IF s1 = s2 THEN 100
    ELSE IF Len(s1) = 0 \/ Len(s2) = 0 THEN 0
    ELSE LET shorter == IF Len(s1) <= Len(s2) THEN s1 ELSE s2
             longer == IF Len(s1) <= Len(s2) THEN s2 ELSE s1
             blocks == get_matching_blocks(shorter, longer)
             window(bl) ==
                 LET long_start == IF bl[2] - bl[1] > 0 THEN bl[2] - bl[1] ELSE 0
                     long_end == IF long_start + Len(shorter) < Len(longer)
                                   THEN long_start + Len(shorter) ELSE Len(longer)
                 IN  SubSeq(longer, long_start + 1, long_end)
             scores == {ratio(shorter, window(blocks[n])) : n \in 1..Len(blocks)}
         IN  IF \E r \in scores : AlmostOne(r) THEN 100
             ELSE LET top == CHOOSE r \in scores :
                                 \A o \in scores : o[1] * r[2] <= r[1] * o[2]
                  IN  intr100(top)

\* ------------------------------------------------------------- inputs
SeqsUpTo(S, n) == UNION {[1..k -> S] : k \in 0..n}

\* Rows a spreadsheet may hold: accented / upper-case terms, a trailing ';',
\* white space around a term, a term repeated in a list, missing cells.
SheetRows ==
    { [Dimensao |-> "D1", PT |-> <<"A_acute", "b">>, EN |-> <<"b", ";">>],
      [Dimensao |-> "D1", PT |-> <<"a", "b", ";", " ", "a">>, EN |-> <<"b", "a">>],
      [Dimensao |-> "D2", PT |-> <<"a", ";", "a">>, EN |-> <<"B">>],
      [Dimensao |-> "D2", PT |-> NaN, EN |-> <<"b">>],
      [Dimensao |-> "D1", PT |-> <<"a">>, EN |-> NaN],
      [Dimensao |-> "D2", PT |-> NaN, EN |-> NaN] }

Sheets == SeqsUpTo(SheetRows, MaxRows)

RequiredColumns == {"Dimensao", "PT", "EN"}
ColumnSets == {RequiredColumns, {"Dimensao", "PT"}}

DocAlphabet == {"a", "b", "A_acute", ".", " "}
Docs == SeqsUpTo(DocAlphabet, MaxDocLen)

\* file names end in one of these (os.path.splitext(name)[-1]); the script
\* checks the extension itself, whatever the uploader widget lets through
Extensions == {".pdf", ".DOCX", ".txt"}

\* slider positions tried (min_value=60, value=75, max_value=100)
MinThreshold == 60
DefaultThreshold == 75
MaxThreshold == 100
Thresholds == {MinThreshold, DefaultThreshold, MaxThreshold}

Languages == <<"PT", "EN">>
Terminators == {".", "!", "?"}

NoFile == [name_ext |-> "", content |-> <<>>]
Uploads == [name_ext : Extensions, content : Docs]

\* --------------------------------------------------------------- state
VARIABLES
    sheet,            \* the spreadsheet behind PRECURSOR_PATH
    columns,          \* its column names
    uploaded_report,  \* the file_uploader widget
    threshold,        \* the slider widget
    precursors_df,    \* load_precursors_excel's result
    ext,              \* lower-cased extension of the upload
    text,             \* extracted text
    idioma,           \* what langdetect.detect returned ("fail": it raised)
    lang_detected,    \* "EN" or "PT"
    resultado,        \* the matcher's DataFrame (filtered in place at line 113)
    resumo,           \* the frequency summary
    df_status,        \* the Sim/Nao sheet
    out,              \* what the page has shown in this run, in order
    pc                \* position of the script

vars == <<sheet, columns, uploaded_report, threshold, precursors_df, ext, text,
          idioma, lang_detected, resultado, resumo, df_status, out, pc>>

run_vars == <<ext, text, idioma, lang_detected, resultado, resumo, df_status>>

\* -------------------------------------------------------------- loader
\* dropna with how="all": a row goes only when both cells are missing
dropna_all(df) == SelectSeq(df, LAMBDA row : ~(isna(row.PT) /\ isna(row.EN)))

\* DataFrame.dropna(subset=["PT", "EN"]): how="any", a row goes when any of
\* the two cells is missing
dropna(df) == SelectSeq(df, LAMBDA row : ~(isna(row.PT) \/ isna(row.EN)))

\* ------------------------------------------------------------- matcher
\* the comparison of line 50 turned round
IsHit_Inverted(term, sentence, thr) == partial_ratio(term, strip(sentence)) <= thr

\* line 50: the sentence counts for the term
IsHit(term, sentence, thr) == partial_ratio(term, strip(sentence)) >= thr

\* lines 45-58 for one row and one language
MatchRecords(txt, row, lang, thr) ==
    LET sentences == split(normalize(txt), Terminators)
        terms == split(str(row[lang]), {";"})
        rec(i) ==
            LET term == normalize(strip(terms[i]))
            IN  [Precursor |-> term,
                 Dimensao |-> row.Dimensao,
                 Idioma |-> lang,
                 Frequencia |-> Cardinality({n \in 1..Len(sentences) :
                                               IsHit(term, sentences[n], thr)})]
    IN  SelectSeq([i \in 1..Len(terms) |-> rec(i)], LAMBDA r : r.Frequencia > 0)

fuzzy_match_terms_count(txt, df, thr) ==
    Flatten([r \in 1..Len(df) |->
               Flatten([l \in 1..Len(Languages) |->
                          MatchRecords(txt, df[r], Languages[l], thr)])])

\* ---------------------------------------------------------- aggregator
RECURSIVE SumFreq(_)
SumFreq(rs) == IF rs = <<>> THEN 0 ELSE Head(rs).Frequencia + SumFreq(Tail(rs))

\* line 113
FilterLanguage(res, lang) == SelectSeq(res, LAMBDA r : r.Idioma = lang)

\* line 114: groupby(["Dimensao", "Precursor"])["Frequência"].sum()
GroupSum(res) ==
    LET keys == {<<res[i].Dimensao, res[i].Precursor>> : i \in 1..Len(res)}
    IN  {[Dimensao |-> k[1], Precursor |-> k[2],
          Frequencia |-> SumFreq(SelectSeq(res, LAMBDA r :
                              r.Dimensao = k[1] /\ r.Precursor = k[2]))] : k \in keys}

\* line 138
encontrados_norm(res) == {strip(LowerStr(res[i].Precursor)) : i \in 1..Len(res)}

\* line 142
StatusKey(term) == LowerStr(strip(term))

\* the status sheet listing only the terms that were found
StatusList_FoundOnly(df, lang, res) ==
    LET rows(row) ==
            LET terms == split(str(row[lang]), {";"})
                found == SelectSeq(terms, LAMBDA t : StatusKey(t) \in encontrados_norm(res))
            IN  [i \in 1..Len(found) |->
                   [Dimensao |-> row.Dimensao,
                    Idioma |-> lang,
                    Precursor |-> strip(found[i]),
                    Encontrado |-> "Sim"]]
    IN  Flatten([r \in 1..Len(df) |-> rows(df[r])])

\* lines 139-149
StatusList(df, lang, res) ==
    LET rows(row) ==
            LET terms == split(str(row[lang]), {";"})
            IN  [i \in 1..Len(terms) |->
                   [Dimensao |-> row.Dimensao,
                    Idioma |-> lang,
                    Precursor |-> strip(terms[i]),
                    Encontrado |-> IF StatusKey(terms[i]) \in encontrados_norm(res)
                                     THEN "Sim" ELSE "Nao"]]
    IN  Flatten([r \in 1..Len(df) |-> rows(df[r])])

\* -------------------------------------------------------------- script
Init ==
    /\ columns \in ColumnSets
    /\ sheet \in (IF columns = RequiredColumns THEN Sheets ELSE {<<>>})
    /\ uploaded_report = NoFile
    /\ threshold = DefaultThreshold
    /\ precursors_df = <<>>
    /\ ext = ""
    /\ text = <<>>
    /\ idioma = ""
    /\ lang_detected = ""
    /\ resultado = <<>>
    /\ resumo = {}
    /\ df_status = <<>>
    /\ out = <<>>
    /\ pc = "widgets"

\* lines 68-69: the widgets hold what the operator set before this run
ReadWidgets ==
    /\ pc = "widgets"
    /\ uploaded_report' \in {NoFile} \cup Uploads
    /\ threshold' \in Thresholds
    /\ pc' = "load"
    /\ UNCHANGED <<sheet, columns, precursors_df, run_vars, out>>

\* lines 75-80 with 18-23: a required column is missing
LoadFail ==
    /\ pc = "load"
    /\ ~(RequiredColumns \subseteq columns)
    /\ out' = Append(out, "load_error")
    /\ pc' = "stopped"
    /\ UNCHANGED <<sheet, columns, uploaded_report, threshold, precursors_df, run_vars>>

\* lines 75-77 with 18-23
Load ==
    /\ pc = "load"
    /\ RequiredColumns \subseteq columns
    /\ precursors_df' = dropna(sheet)
    /\ pc' = "dispatch"
    /\ UNCHANGED <<sheet, columns, uploaded_report, threshold, run_vars, out>>

\* lines 170-171
NoUpload ==
    /\ pc = "dispatch"
    /\ uploaded_report = NoFile
    /\ out' = Append(out, "upload_hint")
    /\ pc' = "done"
    /\ UNCHANGED <<sheet, columns, uploaded_report, threshold, precursors_df, run_vars>>

\* line 84
ExtOf(file) ==
    CASE file.name_ext = ".DOCX" -> ".docx"
      [] OTHER -> file.name_ext

Supported(e) == e = ".pdf" \/ e = ".docx"

\* lines 84-88 and 93-94
ExtractText ==
    /\ pc = "dispatch"
    /\ uploaded_report # NoFile
    /\ Supported(ExtOf(uploaded_report))
    /\ ext' = ExtOf(uploaded_report)
    /\ text' = uploaded_report.content
    /\ out' = Append(out, "text_preview")
    /\ pc' = "detect"
    /\ UNCHANGED <<sheet, columns, uploaded_report, threshold, precursors_df,
                   idioma, lang_detected, resultado, resumo, df_status>>

\* the rejection without its st.stop(): the script carries on
RejectFormat_NoStop ==
    /\ pc = "dispatch"
    /\ uploaded_report # NoFile
    /\ ~Supported(ExtOf(uploaded_report))
    /\ ext' = ExtOf(uploaded_report)
    /\ out' = Append(out, "format_error")
    /\ pc' = "detect"
    /\ UNCHANGED <<sheet, columns, uploaded_report, threshold, precursors_df,
                   text, idioma, lang_detected, resultado, resumo, df_status>>

\* lines 84, 89-91
RejectFormat ==
    /\ pc = "dispatch"
    /\ uploaded_report # NoFile
    /\ ~Supported(ExtOf(uploaded_report))
    /\ ext' = ExtOf(uploaded_report)
    /\ out' = Append(out, "format_error")
    /\ pc' = "stopped"
    /\ UNCHANGED <<sheet, columns, uploaded_report, threshold, precursors_df,
                   text, idioma, lang_detected, resultado, resumo, df_status>>

\* langdetect.detect raises on a text without letters and otherwise returns
\* a language code (it is randomised unless seeded)
IsLetter(c) == c \in {"a", "b", "A", "B", "a_acute", "A_acute"}
DetectorResults(txt) ==
    IF \E i \in 1..Len(txt) : IsLetter(txt[i]) THEN {"en", "pt", "es"} ELSE {"fail"}

\* the label taken from the detector's code instead of the two-way policy
LangLabel_Upper(code) ==
    CASE code = "en" -> "EN"
      [] code = "pt" -> "PT"
      [] OTHER -> "ES"

\* lines 99-101
LangLabel(code) == IF code = "fail" THEN "PT" ELSE IF code = "en" THEN "EN" ELSE "PT"

\* lines 97-103
DetectLanguage ==
    /\ pc = "detect"
    /\ \E code \in DetectorResults(text) :
          /\ idioma' = code
          /\ lang_detected' = LangLabel(code)
    /\ out' = Append(out, "language")
    /\ pc' = "match"
    /\ UNCHANGED <<sheet, columns, uploaded_report, threshold, precursors_df,
                   ext, text, resultado, resumo, df_status>>

\* lines 106-107
Match ==
    /\ pc = "match"
    /\ resultado' = fuzzy_match_terms_count(text, precursors_df, threshold)
    /\ out' = Append(out, "analysing")
    /\ pc' = "check"
    /\ UNCHANGED <<sheet, columns, uploaded_report, threshold, precursors_df,
                   ext, text, idioma, lang_detected, resumo, df_status>>

\* "resultado is None" instead of resultado.empty: never true of a DataFrame
IsEmptyResult_None(res) == FALSE

\* line 109
IsEmptyResult(res) == res = <<>>

\* lines 109-110
NothingFound ==
    /\ pc = "check"
    /\ IsEmptyResult(resultado)
    /\ out' = Append(out, "warning_none")
    /\ pc' = "done"
    /\ UNCHANGED <<sheet, columns, uploaded_report, threshold, precursors_df, run_vars>>

\* lines 111-116
Summarize ==
    /\ pc = "check"
    /\ ~IsEmptyResult(resultado)
    /\ resultado' = FilterLanguage(resultado, lang_detected)
    /\ resumo' = GroupSum(FilterLanguage(resultado, lang_detected))
    /\ out' = out \o <<"success", "summary">>
    /\ pc' = "charts"
    /\ UNCHANGED <<sheet, columns, uploaded_report, threshold, precursors_df,
                   ext, text, idioma, lang_detected, df_status>>

\* lines 119-134
RenderCharts ==
    /\ pc = "charts"
    /\ out' = Append(out, "charts")
    /\ pc' = "status"
    /\ UNCHANGED <<sheet, columns, uploaded_report, threshold, precursors_df, run_vars>>

\* lines 119-134: the plotting libraries may raise on a summary without rows
ChartsRaise ==
    /\ pc = "charts"
    /\ resumo = {}
    /\ out' = Append(out, "exception")
    /\ pc' = "crashed"
    /\ UNCHANGED <<sheet, columns, uploaded_report, threshold, precursors_df, run_vars>>

\* lines 136-149
BuildStatus ==
    /\ pc = "status"
    /\ df_status' = StatusList(precursors_df, lang_detected, resultado)
    /\ out' = Append(out, "status_sheet")
    /\ pc' = "downloads"
    /\ UNCHANGED <<sheet, columns, uploaded_report, threshold, precursors_df,
                   ext, text, idioma, lang_detected, resultado, resumo>>

\* lines 152-169
Downloads ==
    /\ pc = "downloads"
    /\ out' = Append(out, "downloads")
    /\ pc' = "done"
    /\ UNCHANGED <<sheet, columns, uploaded_report, threshold, precursors_df, run_vars>>

Finished == pc \in {"done", "stopped", "crashed"}

\* Streamlit runs the script again, from the top, on the next interaction;
\* the widgets are read afresh by ReadWidgets
Rerun ==
    /\ Finished
    /\ ext' = ""
    /\ text' = <<>>
    /\ idioma' = ""
    /\ lang_detected' = ""
    /\ resultado' = <<>>
    /\ resumo' = {}
    /\ df_status' = <<>>
    /\ out' = <<>>
    /\ uploaded_report' = NoFile
    /\ threshold' = DefaultThreshold
    /\ precursors_df' = <<>>
    /\ pc' = "widgets"
    /\ UNCHANGED <<sheet, columns>>

Next ==
    \/ ReadWidgets
    \/ LoadFail
    \/ Load
    \/ NoUpload
    \/ ExtractText
    \/ RejectFormat
    \/ DetectLanguage
    \/ Match
    \/ NothingFound
    \/ Summarize
    \/ RenderCharts
    \/ ChartsRaise
    \/ BuildStatus
    \/ Downloads
    \/ Rerun

Spec == Init /\ [][Next]_vars

\* ============================================================== claims
Shown(x) == \E i \in 1..Len(out) : out[i] = x

\* the matcher's output for this run, before the language filter of line 113
Emitted == fuzzy_match_terms_count(text, precursors_df, threshold)

\* the dictionary has been loaded in this run
Loaded == pc \notin {"widgets", "load"} /\ ~Shown("load_error")

\* the terms of one cell, as written in the spreadsheet
Terms(row, lang) == split(str(row[lang]), {";"})

\* the sentence units of the report
Sentences == split(normalize(text), Terminators)

DictTriples ==
    UNION {UNION {{<<precursors_df[r].Dimensao, l, strip(Terms(precursors_df[r], l)[j])>> :
                      j \in 1..Len(Terms(precursors_df[r], l))} :
                  l \in {"PT", "EN"}} :
           r \in 1..Len(precursors_df)}

StatusTriples ==
    {<<df_status[i].Dimensao, df_status[i].Idioma, df_status[i].Precursor>> :
        i \in 1..Len(df_status)}

RECURSIVE Offset(_)
\* status rows that precede those of dictionary row r
Offset(r) ==
    IF r <= 1 THEN 0
    ELSE Offset(r - 1) + Len(Terms(precursors_df[r - 1], lang_detected))

\* C1, as stated: every completed analysis has a status sheet with exactly
\* one row per (category, language, term) triple of the dictionary, for PT
\* and EN alike, whether or not the matcher emitted a record.
C1_StatusCoversDictionary ==
    (pc = "done" /\ Shown("analysing")) =>
        /\ StatusTriples = DictTriples
        /\ Len(df_status) = Cardinality(DictTriples)

\* C1, amended: the status sheet exists only when the matcher emitted a record;
\* it then holds exactly one row per term occurrence (dictionary row, position
\* in the list) of the detected language, with that row's Dimensao, the
\* detected language and the trimmed term, and no row of the other language;
\* the 'nothing found' outcome has no status sheet.
C1_StatusCoversDetectedLanguage ==
    /\ Shown("status_sheet") =>
          /\ Emitted # <<>>
          /\ Len(df_status) = Offset(Len(precursors_df) + 1)
          /\ \A r \in 1..Len(precursors_df) :
                \A j \in 1..Len(Terms(precursors_df[r], lang_detected)) :
                   LET s == df_status[Offset(r) + j]
                   IN  /\ s.Dimensao = precursors_df[r].Dimensao
                       /\ s.Idioma = lang_detected
                       /\ s.Precursor = strip(Terms(precursors_df[r], lang_detected)[j])
    /\ Shown("warning_none") => (~Shown("status_sheet") /\ df_status = <<>>)

C1_Witness ==
    /\ Shown("status_sheet")
    /\ \E i \in 1..Len(df_status) : df_status[i].Encontrado = "Nao"
    /\ \E i \in 1..Len(df_status) : df_status[i].Encontrado = "Sim"
    /\ StatusTriples # DictTriples

\* C2, as stated: in the status sheet a term is flagged 'Sim' exactly when the
\* language-filtered matcher output has a record for that term, accented and
\* upper-case terms included.
C2_SimIffMatched ==
    Shown("status_sheet") =>
        \A i \in 1..Len(df_status) :
            (df_status[i].Encontrado = "Sim") <=>
                (\E k \in 1..Len(resultado) :
                    resultado[k].Precursor = normalize(df_status[i].Precursor))

\* C3, as stated: every row of the frequency summary carries the number of
\* sentence units whose score against its term reaches the threshold.
C3_FrequencyIsSentenceCount ==
    Shown("summary") =>
        \A row \in resumo :
            row.Frequencia =
                Cardinality({n \in 1..Len(Sentences) :
                    partial_ratio(row.Precursor, strip(Sentences[n])) >= threshold})

\* every record of small has a record of big with the same term, category and
\* language and at least its count
Covered(small, big) ==
    /\ Len(small) <= Len(big)
    /\ \A k \in 1..Len(small) :
          \E j \in 1..Len(big) :
             /\ big[j].Precursor = small[k].Precursor
             /\ big[j].Dimensao = small[k].Dimensao
             /\ big[j].Idioma = small[k].Idioma
             /\ small[k].Frequencia <= big[j].Frequencia

RecordsAt(t) == fuzzy_match_terms_count(text, precursors_df, t)

\* C4: for one report and dictionary, the records the matcher emits at a
\* threshold are among those it emits at every lower threshold, with counts
\* that are no larger; raising the threshold adds no record and no count.
C4_ThresholdMonotone ==
    pc = "check" =>
        \A t \in Thresholds \ {threshold} :
            LET other == RecordsAt(t)
            IN  /\ t <= threshold => Covered(resultado, other)
                /\ t >= threshold => Covered(other, resultado)

C4_Witness ==
    /\ pc = "check"
    /\ threshold = MaxThreshold
    /\ resultado # <<>>
    /\ Len(resultado) < Len(RecordsAt(MinThreshold))

\* C5: when the matcher emits no record the run ends in the warning branch:
\* by its end it has shown the warning and no success message, summary,
\* chart, status sheet or download (out keeps all that a run has shown).
C5_NothingFound ==
    (Shown("analysing") /\ Finished /\ Emitted = <<>>) =>
        /\ pc = "done"
        /\ out = <<"text_preview", "language", "analysing", "warning_none">>
        /\ resumo = {}
        /\ df_status = <<>>

C5_Witness ==
    /\ pc = "done"
    /\ Shown("warning_none")
    /\ precursors_df # <<>>
    /\ \E i \in 1..Len(text) : IsLetter(text[i])

\* C6, as stated: an empty extracted text gives no match record and the
\* 'nothing found' outcome, whatever the dictionary.
C6_EmptyTextNothingFound ==
    /\ (pc = "check" /\ text = <<>>) => resultado = <<>>
    /\ (Shown("text_preview") /\ text = <<>> /\ pc \in {"done", "stopped", "crashed"}) =>
          (pc = "done" /\ Shown("warning_none"))

\* C7, as stated: the loader drops a row exactly when both PT and EN are
\* missing.
C7_DropsOnlyBothMissing ==
    Loaded =>
        precursors_df = SelectSeq(sheet, LAMBDA row : ~(row.PT = NaN /\ row.EN = NaN))

\* C7, amended: the loader drops a row exactly when PT or EN (or both) is
\* missing; every loaded entry has a value in both PT and EN.
C7_DropsAnyMissing ==
    Loaded =>
        /\ \A i \in 1..Len(precursors_df) :
              precursors_df[i].PT # NaN /\ precursors_df[i].EN # NaN
        /\ precursors_df = SelectSeq(sheet, LAMBDA row : row.PT # NaN /\ row.EN # NaN)

C7_Witness ==
    /\ Loaded
    /\ \E i \in 1..Len(sheet) : (sheet[i].PT = NaN) # (sheet[i].EN = NaN)
    /\ Len(precursors_df) < Len(sheet)

\* C8: detection always ends with one label of {EN, PT}: EN exactly when the
\* detector returned English, PT for any other result and when it raised; the
\* run is not stopped by it, and matching and the emptiness check follow.
C8_DetectionResolves ==
    Shown("language") =>
        /\ lang_detected \in {"EN", "PT"}
        /\ (lang_detected = "EN") <=> (idioma = "en")
        /\ pc # "stopped"
        /\ pc \in {"match", "check", "charts", "status", "downloads", "done", "crashed"}
        /\ pc # "match" => Shown("analysing")
        /\ pc \in {"done", "crashed"} =>
              (Shown("analysing") /\ (Shown("warning_none") \/ Shown("summary")))

C8_Witness ==
    /\ pc = "done"
    /\ idioma = "fail"
    /\ lang_detected = "PT"
    /\ Shown("analysing")
    /\ Shown("warning_none")

\* C9: an upload whose extension is neither .pdf nor .docx is rejected at the
\* dispatch and nothing else runs in that request: no extraction, detection,
\* matching or aggregation.
C9_RejectedRunsNothing ==
    (Loaded /\ pc # "dispatch" /\ uploaded_report # NoFile
       /\ uploaded_report.name_ext \notin {".pdf", ".DOCX"}) =>
        /\ pc = "stopped"
        /\ out = <<"format_error">>
        /\ text = <<>>
        /\ idioma = ""
        /\ lang_detected = ""
        /\ resultado = <<>>
        /\ resumo = {}
        /\ df_status = <<>>

C9_Witness ==
    /\ pc = "stopped"
    /\ out = <<"format_error">>
    /\ uploaded_report.content # <<>>
    /\ precursors_df # <<>>

\* C10, as stated: whenever the success branch is taken the language-filtered
\* summary has at least one row.
C10_SuccessHasRows == Shown("success") => resumo # {}
====
